---- MODULE Spec2Model ----
(***************************************************************************)
(* A model of cocoon: the Token placeholder engine (token_.py), the lazy   *)
(* call-chain Proxy (proxy.py) and deep_apply (utils.py).                  *)
(*                                                                         *)
(* Python values are records tagged by a field k.  A text is a sequence of *)
(* one-character strings.  A Python exception is an "err" value that the   *)
(* operators propagate the way the interpreter unwinds.                    *)
(***************************************************************************)
EXTENDS Integers, Sequences, FiniteSets, TLC

VARIABLES tokens, instances, regex, core, proxies, calls, touched, last

vars == <<tokens, instances, regex, core, proxies, calls, touched, last>>

---------------------------------------------------------------------------
(* Bounds of the model.                                                    *)

\* Token objects on the heap, cached variants included.
MaxTokens == 3
\* Zero-argument invocations of callables over one behaviour.
MaxCalls == 2
\* Chunks a target text is put together from.
MaxChunks == 2
\* Chain Proxy objects on the heap.
MaxProxies == 2
\* Recorded steps and operations of one Chain Proxy.
MaxOps == 3
\* The largest call_depth a Token is created with in the resolution runs.
MaxDepth == 2
\* Containers nested in one another in a value given to deep_apply.
MaxNest == 2

---------------------------------------------------------------------------
(* Python values.                                                          *)

NoneV == [k |-> "none"]
BoolV(b) == [k |-> "bool", b |-> b]
IntV(n) == [k |-> "int", n |-> n]
StrV(s) == [k |-> "str", s |-> s]
ListV(xs) == [k |-> "list", items |-> xs]
TupleV(xs) == [k |-> "tuple", items |-> xs]
SetV(S) == [k |-> "set", elems |-> S]
\* A dict is its sequence of <<key, value>> pairs in insertion order.
DictV(ps) == [k |-> "dict", pairs |-> ps]
\* A zero-argument callable that yields a fresh value on every call.
GenV == [k |-> "gen"]
\* d >= 1 nested zero-argument callables around the value f.
FnV(d, f) == [k |-> "fn", depth |-> d, final |-> f]
\* A factory of factories: every call returns another callable.
EndlessV == [k |-> "endless"]
\* A reference to the Chain Proxy object p of the heap.
ProxyV(p) == [k |-> "proxy", ref |-> p]
\* A reference to the Token object t of the heap.
TokenV(t) == [k |-> "token", tok |-> t]
\* A backend object and a bound method of it.
BackendV(b) == [k |-> "backend", b |-> b]
MethV(b, name) == [k |-> "meth", b |-> b, name |-> name]
\* A raised exception.
ErrV(e) == [k |-> "err", e |-> e]
\* An attribute that was never assigned.
Unset == [k |-> "unset"]

IsErr(v) == v.k = "err"

\* callable(v): the values with a __call__ (Proxy defines one).
Callable(v) == v.k \in {"gen", "fn", "endless", "meth", "proxy"}

\* bool(v) for the values the code tests with "or" and ":=".
Truthy(v) ==
    CASE v.k = "none" -> FALSE
      [] v.k = "bool" -> v.b
      [] v.k = "int" -> v.n # 0
      [] v.k = "str" -> v.s # <<>>
      [] v.k \in {"list", "tuple"} -> v.items # <<>>
      [] v.k = "set" -> v.elems # {}
      [] v.k = "dict" -> v.pairs # <<>>
      [] OTHER -> TRUE

---------------------------------------------------------------------------
(* Strings: str methods on sequences of characters.                        *)

Digits == <<"0", "1", "2", "3", "4", "5", "6", "7", "8", "9">>

RECURSIVE IntStr(_)
\* str(n) for n >= 0.
IntStr(n) ==
    IF n < 10 THEN <<Digits[n + 1]>>
    ELSE IntStr(n \div 10) \o <<Digits[(n % 10) + 1]>>

\* sub occurs in s at position i.
OccursAt(s, sub, i) ==
    /\ i >= 1
    /\ i + Len(sub) - 1 <= Len(s)
    /\ \A j \in 1..Len(sub) : s[i + j - 1] = sub[j]

\* s.find(sub, from): the lowest position >= from of sub in s, 0 when none.
StrFind(s, sub, from) ==
    LET hits == {i \in from..(Len(s) - Len(sub) + 1) : OccursAt(s, sub, i)}
    IN IF hits = {} THEN 0 ELSE CHOOSE i \in hits : \A j \in hits : i <= j

\* sub in s.
StrIn(sub, s) == StrFind(s, sub, 1) # 0

RECURSIVE CountFrom(_, _, _)
CountFrom(s, sub, from) ==
    LET i == StrFind(s, sub, from)
    IN IF i = 0 THEN 0 ELSE 1 + CountFrom(s, sub, i + Len(sub))

\* s.count(sub): the non-overlapping occurrences, for a non-empty sub.
StrCount(s, sub) == CountFrom(s, sub, 1)

\* s.replace(old, new, 1): the first occurrence replaced.
StrReplace1(s, old, new) ==
    LET i == StrFind(s, old, 1)
    IN IF i = 0 THEN s
       ELSE SubSeq(s, 1, i - 1) \o new \o SubSeq(s, i + Len(old), Len(s))

\* The punctuation the model's texts use; every other character is a letter
\* or a digit.
Punctuation == {"{", "}", "$", "<", ">", "#", "_", "-", " ", "(", ")"}

\* char.isalnum()
IsAlnum(c) == c \notin Punctuation

\* _has_alphanumeric
HasAlphanumeric(s) == \E i \in 1..Len(s) : IsAlnum(s[i])

---------------------------------------------------------------------------
(* str(value).                                                             *)

\* The text Python prints for an object without a __str__ of its own.
ObjectRepr == <<"<", "o", "b", "j", ">">>

\* str(generator): the text deep_apply builds a str leaf from.
GeneratorRepr == <<"<", "g", "e", "n", ">">>

\* str(v) for the values a replacement resolves to.
StrOf(v) ==
    CASE v.k = "str" -> v.s
      [] v.k = "none" -> <<"N", "o", "n", "e">>
      [] v.k = "int" -> IntStr(v.n)
      [] v.k = "bool" -> IF v.b THEN <<"T", "r", "u", "e">>
                         ELSE <<"F", "a", "l", "s", "e">>
      [] OTHER -> ObjectRepr

---------------------------------------------------------------------------
(* The backend: the object Proxy.__core__ names.  cocoon.core is not part  *)
(* of the sources; the backends here are stubs with a generator method     *)
(* "name" (a fresh value per call), a constant method "baz", a method      *)
(* "foo" that returns a mapping echoing its arguments, an attribute        *)
(* "data" that is a mapping.                                               *)

Backends == {"fake", "stub"}

BackendLetter(b) == IF b = "fake" THEN "f" ELSE "s"

BackendMethods == {"name", "baz", "foo"}

BackendData(b) == DictV(<< <<StrV(<<"x">>), StrV(<<BackendLetter(b), "x">>)>> >>)

\* getattr(obj, name)
GetAttr(obj, name) ==
    IF obj.k = "backend" /\ name \in BackendMethods THEN MethV(obj.b, name)
    ELSE IF obj.k = "backend" /\ name = "data" THEN BackendData(obj.b)
    ELSE ErrV("AttributeError")

RECURSIVE PairsGet(_, _)
\* dict.get(key) over the pairs of a dict: Unset when the key is absent.
PairsGet(pairs, key) ==
    IF pairs = <<>> THEN Unset
    ELSE IF pairs[1][1] = key THEN pairs[1][2]
    ELSE PairsGet(Tail(pairs), key)

\* obj[key]
GetIndex(obj, key) ==
    CASE obj.k = "dict" ->
            LET v == PairsGet(obj.pairs, key)
            IN IF v = Unset THEN ErrV("KeyError") ELSE v
      [] obj.k \in {"list", "tuple"} ->
            IF key.k # "int" THEN ErrV("TypeError")
            ELSE IF key.n + 1 \in 1..Len(obj.items) THEN obj.items[key.n + 1]
            ELSE ErrV("IndexError")
      [] OTHER -> ErrV("TypeError")

\* obj(*args, **kwargs) in the machine state st: the value returned and the
\* state with the invocation counted, and the backend touched when the
\* callable is a method of it.
CallObj(st, f, args, kwargs) ==
    LET n == st.calls + 1
        counted == [st EXCEPT !.calls = n, !.touched = @ \/ f.k = "meth"]
        noargs == args = <<>> /\ kwargs = <<>>
    IN CASE f.k = "gen" /\ noargs -> [st |-> counted, v |-> IntV(n)]
         [] f.k = "fn" /\ noargs ->
              [st |-> counted,
               v |-> IF f.depth = 1 THEN f.final ELSE FnV(f.depth - 1, f.final)]
         [] f.k = "endless" /\ noargs -> [st |-> counted, v |-> EndlessV]
         [] f.k = "meth" /\ f.name = "name" /\ noargs ->
              [st |-> counted, v |-> StrV(<<BackendLetter(f.b)>> \o IntStr(n))]
         [] f.k = "meth" /\ f.name = "baz" /\ noargs ->
              [st |-> counted, v |-> StrV(<<BackendLetter(f.b), "b">>)]
         [] f.k = "meth" /\ f.name = "foo" ->
              [st |-> counted,
               v |-> DictV(<< <<StrV(<<"x">>),
                                TupleV(<<StrV(<<BackendLetter(f.b)>>),
                                         TupleV(args), DictV(kwargs)>>)>> >>)]
         [] OTHER -> [st |-> st, v |-> ErrV("TypeError")]

---------------------------------------------------------------------------
(* deep_apply (utils.py) and the Chain Proxy (proxy.py).                   *)
(*                                                                         *)
(* A queue is a sequence of steps [item, params]: item is the hop name,    *)
(* "" for the root step's None; params are the recorded elements, an       *)
(* Arguments (args, kwargs) or an Item (key).                              *)

Arguments(args, kwargs) == [k |-> "Arguments", args |-> args, kwargs |-> kwargs]
Item(key) == [k |-> "Item", key |-> key]

\* Proxy.__init__
NewQueue == << [item |-> "", params |-> <<>>] >>

\* Proxy.__getattr__
QueueGetAttr(queue, item) == Append(queue, [item |-> item, params |-> <<>>])

\* self.__queue__[-1][1].append(element)
QueueAppend(queue, element) ==
    [queue EXCEPT ![Len(queue)].params = Append(@, element)]

\* An index recorded on the root step, wherever the chain has got to: what
\* C17 rules out.
QueueGetItemAtRoot(queue, key) == [queue EXCEPT ![1].params = Append(@, Item(key))]

\* Proxy.__getitem__
QueueGetItem(queue, key) == QueueAppend(queue, Item(key))

\* Proxy.__call__
QueueCall(queue, args, kwargs) == QueueAppend(queue, Arguments(args, kwargs))

\* The second argument of deep_apply: a type (a set of kinds), or the
\* predicate function the callers in proxy.py and parser.py pass.
TypeArg(kinds) == [k |-> "types", kinds |-> kinds]
LambdaArg(name) == [k |-> "lambda", name |-> name]

\* lambda x: isinstance(x, Proxy), the predicate _resolve passes.
IsProxyLambda == LambdaArg("is_proxy")

\* isinstance(obj, type_): a TypeError when type_ is not a type.
IsInstance(obj, type_) ==
    IF type_.k # "types" THEN ErrV("TypeError")
    ELSE BoolV(obj.k \in type_.kinds)

RECURSIVE SetToSeq(_)
\* The elements of a set in the order an iteration meets them.
SetToSeq(S) ==
    IF S = {} THEN <<>>
    ELSE LET x == CHOOSE y \in S : TRUE IN <<x>> \o SetToSeq(S \ {x})

RECURSIVE DeepApply(_, _, _, _)
RECURSIVE DeepApplyEach(_, _, _, _, _)
RECURSIVE ProxyResolve(_, _)
RECURSIVE ReplayParams(_, _, _)
RECURSIVE ReplaySteps(_, _, _)

\* method(obj) for the methods deep_apply is called with.
ApplyMethod(st, method, obj) ==
    IF method = "resolve" THEN ProxyResolve(st, obj.ref)
    ELSE [st |-> st, v |-> ErrV("TypeError")]

\* The result r of one element: an exception ends the traversal, a value
\* joins the results done and the elements xs left are gone through.
DeepApplyNext(r, xs, type_, method, done) ==
    IF IsErr(r.v) THEN r
    ELSE DeepApplyEach(r.st, xs, type_, method, Append(done, r.v))

\* deep_apply over the elements xs, left to right: the sequence of results,
\* or the first exception.
DeepApplyEach(st, xs, type_, method, done) ==
    IF xs = <<>> THEN [st |-> st, v |-> TupleV(done)]
    ELSE DeepApplyNext(DeepApply(st, xs[1], type_, method), Tail(xs), type_,
                       method, done)

\* The values a Mapping or an Iterable is traversed over.
Elements(obj) ==
    CASE obj.k = "dict" -> [i \in 1..Len(obj.pairs) |-> obj.pairs[i][2]]
      [] obj.k = "set" -> SetToSeq(obj.elems)
      [] OTHER -> obj.items

\* class_(...): a new instance of the class of obj from the results r.
Rebuilt(r, obj) ==
    IF IsErr(r.v) THEN r
    ELSE [st |-> r.st,
          v |-> CASE obj.k = "dict" ->
                       DictV([i \in 1..Len(obj.pairs) |->
                                 <<obj.pairs[i][1], r.v.items[i]>>])
                  [] obj.k = "set" ->
                       SetV({r.v.items[i] : i \in 1..Len(r.v.items)})
                  [] OTHER -> [k |-> obj.k, items |-> r.v.items]]

\* deep_apply(obj, type_, method)
DeepApply(st, obj, type_, method) ==
    LET inst == IsInstance(obj, type_)
    IN IF IsErr(inst) THEN [st |-> st, v |-> inst]
       ELSE IF inst.b THEN ApplyMethod(st, method, obj)
       ELSE IF obj.k \in {"dict", "list", "tuple", "set"} THEN
            Rebuilt(DeepApplyEach(st, Elements(obj), type_, method, <<>>), obj)
       ELSE IF obj.k = "str" THEN
            \* str is Iterable: class_(generator) is str(generator).
            [st |-> st, v |-> StrV(GeneratorRepr)]
       ELSE [st |-> st, v |-> obj]

\* _resolve
Resolve(st, obj) == DeepApply(st, obj, IsProxyLambda, "resolve")

\* The element applied with the result r: an exception ends the replay,
\* a value is what the elements left are applied to.
ReplayNext(r, params) ==
    IF IsErr(r.v) THEN r ELSE ReplayParams(r.st, Tail(params), r.v)

\* obj = obj(*args, **kwargs), the keyword arguments resolved to kw.
WithKwargs(kw, args, params, obj) ==
    IF IsErr(kw.v) THEN kw
    ELSE ReplayNext(CallObj(kw.st, obj, args, kw.v.pairs), params)

\* kwargs = _resolve(element.kwargs), the positional arguments resolved
\* to a.
WithArgs(a, params, obj) ==
    IF IsErr(a.v) THEN a
    ELSE WithKwargs(Resolve(a.st, DictV(params[1].kwargs)), a.v.items, params, obj)

\* The inner loop of __resolve__: the elements of one step applied to obj.
ReplayParams(st, params, obj) ==
    IF params = <<>> THEN [st |-> st, v |-> obj]
    ELSE IF params[1].k = "Arguments" THEN
        WithArgs(Resolve(st, TupleV(params[1].args)), params, obj)
    ELSE IF params[1].k = "Item" THEN
        ReplayNext([st |-> st, v |-> GetIndex(obj, params[1].key)], params)
    ELSE [st |-> st, v |-> ErrV("ValueError")]

\* The step replayed with the result r: on to the steps left.
StepDone(r, queue) ==
    IF IsErr(r.v) THEN r ELSE ReplaySteps(r.st, Tail(queue), r.v)

\* The state after getattr(obj, item): the backend is touched when obj is
\* the backend.
AfterGetAttr(st, obj, item) ==
    IF item # "" /\ obj.k = "backend" THEN [st EXCEPT !.touched = TRUE] ELSE st

\* The outer loop of __resolve__.
ReplaySteps(st, queue, obj) ==
    IF queue = <<>> THEN [st |-> st, v |-> obj]
    ELSE LET o == IF queue[1].item # "" THEN GetAttr(obj, queue[1].item) ELSE obj
             read == AfterGetAttr(st, obj, queue[1].item)
         IN IF IsErr(o) THEN [st |-> read, v |-> o]
            ELSE StepDone(ReplayParams(read, queue[1].params, o), queue)

\* A replay that uses the recording up, the queue left as that of a new
\* Chain Proxy: what C20 rules out.
ProxyResolveOnce(st, p) ==
    IF st.core = NoneV THEN [st |-> st, v |-> ErrV("ValueError")]
    ELSE LET r == ReplaySteps(st, st.proxies[p], st.core)
         IN [st |-> [r.st EXCEPT !.proxies[p] = NewQueue], v |-> r.v]

\* Proxy.__resolve__ of the proxy p of the heap.
ProxyResolve(st, p) ==
    IF st.core = NoneV THEN [st |-> st, v |-> ErrV("ValueError")]
    ELSE ReplaySteps(st, st.proxies[p], st.core)

---------------------------------------------------------------------------
(* Token (token_.py).                                                      *)
(*                                                                         *)
(* A Token object is a record of its private attributes; tokens is the     *)
(* heap and a Token's identity is its index.  cached and the registry's    *)
(* instances are dicts: sequences of <<key, Token reference>> pairs in     *)
(* insertion order.  dunder is the attribute __replacement__, which name   *)
(* mangling keeps apart from the private replacement (_Token__replacement).*)

\* Token.__prefix__, Token.__brackets__, Token.__size__
DefaultPrefix == <<"$">>
DefaultBrackets == <<"{", "{", "}", "}">>
DefaultSize == 8
\* The default of the call_depth parameter.
DefaultCallDepth == 10

\* The letters the ids of successive Tokens start with.
IdLetters == <<"a", "b", "c", "d", "y", "q", "r", "u">>

\* secrets.token_urlsafe(nbytes) for the j-th Token made: a text of
\* ceil(4 * nbytes / 3) URL-safe characters, different for every j.
TokenUrlsafe(nbytes, j) ==
    [i \in 1..((4 * nbytes + 2) \div 3) |-> IF i = 1 THEN IdLetters[j] ELSE "A"]

\* _validate_prefix
ValidatePrefix(prefix) ==
    IF prefix.k # "str" THEN ErrV("TypeError")
    ELSE IF HasAlphanumeric(prefix.s) THEN ErrV("ValueError")
    ELSE NoneV

\* _validate_brackets
ValidateBrackets(brackets) ==
    IF brackets.k # "str" THEN ErrV("TypeError")
    ELSE IF Len(brackets.s) < 2 \/ Len(brackets.s) % 2 # 0 THEN ErrV("ValueError")
    ELSE IF HasAlphanumeric(brackets.s) THEN ErrV("ValueError")
    ELSE NoneV

\* A validation of the type of size alone, which lets zero and negative
\* sizes through: what C15 rules out.
ValidateSizeOfAnyInt(size) ==
    IF size.k # "int" THEN ErrV("TypeError") ELSE NoneV

\* _validate_size
ValidateSize(size) ==
    IF size.k # "int" THEN ErrV("TypeError")
    ELSE IF size.n <= 0 THEN ErrV("ValueError")
    ELSE NoneV

\* _validate_item
ValidateItem(item) ==
    IF item.k \notin {"int", "str"} THEN ErrV("TypeError") ELSE NoneV

\* _validate_meta
ValidateMeta(brackets, prefix, size) ==
    LET b == IF brackets # NoneV THEN ValidateBrackets(brackets) ELSE NoneV
        p == IF prefix # NoneV THEN ValidatePrefix(prefix) ELSE NoneV
        z == IF size # NoneV THEN ValidateSize(size) ELSE NoneV
    IN IF IsErr(b) THEN b ELSE IF IsErr(p) THEN p ELSE z

\* _validate_obj
ValidateObj(obj) ==
    IF obj.k \notin {"token", "str"} THEN ErrV("TypeError") ELSE NoneV

\* Token.brackets, Token.prefix, Token.size: the instance's own, or the
\* class default.
Brackets(tok) == IF Truthy(tok.brackets) THEN tok.brackets.s ELSE DefaultBrackets
Prefix(tok) == IF Truthy(tok.prefix) THEN tok.prefix.s ELSE DefaultPrefix
Size(tok) == IF Truthy(tok.size) THEN tok.size.n ELSE DefaultSize

\* Token.__str__: the placeholder text.
Placeholder(tok) ==
    LET b == Brackets(tok)
        i == Len(b) \div 2
    IN SubSeq(b, 1, i) \o Prefix(tok) \o tok.id \o SubSeq(b, i + 1, Len(b))

\* str(obj) for the objects _validate_obj lets through.
ObjStr(st, obj) ==
    IF obj.k = "token" THEN Placeholder(st.tokens[obj.tok]) ELSE StrOf(obj)

\* A regular expression is a sequence of atoms: an escaped character, or
\* the class [a-zA-Z_\d\-] repeated exactly n times.
Lit(c) == [a |-> "lit", c |-> c, n |-> 1]
Cls(n) == [a |-> "cls", c |-> "", n |-> n]

\* An expression made from the class defaults, whatever the Token's own
\* brackets and prefix are: what C12 rules out.
GenerateRegexOfDefaults(brackets, prefix, id_) ==
    LET i == Len(DefaultBrackets) \div 2
    IN [j \in 1..i |-> Lit(DefaultBrackets[j])]
       \o [j \in 1..Len(DefaultPrefix) |-> Lit(DefaultPrefix[j])]
       \o <<Cls(Len(id_))>>
       \o [j \in 1..(Len(DefaultBrackets) - i) |-> Lit(DefaultBrackets[i + j])]

\* _generate_regex: every character of the brackets and of the prefix
\* escaped by a backslash, the id by its length.
GenerateRegex(brackets, prefix, id_) ==
    LET i == Len(brackets) \div 2
    IN [j \in 1..i |-> Lit(brackets[j])]
       \o [j \in 1..Len(prefix) |-> Lit(prefix[j])]
       \o <<Cls(Len(id_))>>
       \o [j \in 1..(Len(brackets) - i) |-> Lit(brackets[i + j])]

\* An assignment that leaves the new entry alone in the dict: what C14
\* rules out.
PairsSetAlone(pairs, key, value) == << <<key, value>> >>

\* dict[key] = value
RECURSIVE PairsSet(_, _, _)
PairsSet(pairs, key, value) ==
    IF pairs = <<>> THEN << <<key, value>> >>
    ELSE IF pairs[1][1] = key THEN << <<key, value>> >> \o Tail(pairs)
    ELSE <<pairs[1]>> \o PairsSet(Tail(pairs), key, value)

\* dict.values()
PairsValues(pairs) == [i \in 1..Len(pairs) |-> pairs[i][2]]

\* Token.__init__: validation, the id, registration unless anonymous.
NewToken(st, replacement, full_match, anonymous, call_depth, always_replace, brackets, prefix, size) ==
    LET e == ValidateMeta(brackets, prefix, size)
        t == Len(st.tokens) + 1
        meta == [id |-> <<>>, brackets |-> brackets, prefix |-> prefix,
                 size |-> size, replacement |-> replacement,
                 full_match |-> full_match, anonymous |-> anonymous,
                 call_depth |-> call_depth, always_replace |-> always_replace,
                 cached |-> <<>>, dunder |-> Unset]
        tok == [meta EXCEPT !.id = TokenUrlsafe(Size(meta), t)]
        rx == GenerateRegex(Brackets(tok), Prefix(tok), tok.id)
        reg == IF anonymous THEN st
               ELSE [st EXCEPT !.instances = PairsSet(@, Placeholder(tok), TokenV(t)),
                               !.regex = @ \cup {rx}]
    IN IF IsErr(e) THEN [st |-> st, v |-> e]
       ELSE [st |-> [reg EXCEPT !.tokens = Append(@, tok)], v |-> TokenV(t)]

RECURSIVE ReplacementLoop(_, _, _, _)

\* The value r that the proxy resolved to or the call returned: the loop
\* goes on with it.
Looped(r, tok, tries) ==
    IF IsErr(r.v) THEN r ELSE ReplacementLoop(r.st, tok, r.v, tries)

\* The while loop of Token.replacement.
ReplacementLoop(st, tok, replacement, tries) ==
    IF ~Callable(replacement) THEN [st |-> st, v |-> replacement]
    ELSE IF replacement.k = "proxy" THEN
        Looped(ProxyResolve(st, replacement.ref), tok, tries)
    ELSE IF tries >= tok.call_depth THEN [st |-> st, v |-> replacement]
    ELSE Looped(CallObj(st, replacement, <<>>, <<>>), tok, tries + 1)

\* The test after the loop on what the loop left, r.
StillCallable(r, always_replace) ==
    IF IsErr(r.v) THEN r
    ELSE IF Callable(r.v) /\ ~always_replace
         THEN [st |-> r.st, v |-> ErrV("RuntimeError")]
    ELSE r

\* A resolution that allows one invocation more than call_depth: what C2
\* rules out.
ReplacementOver(st, t) ==
    StillCallable(ReplacementLoop(st, [st.tokens[t] EXCEPT !.call_depth = @ + 1],
                                  st.tokens[t].replacement, 0),
                  st.tokens[t].always_replace)

\* Token.replacement of the Token t.
Replacement(st, t) ==
    StillCallable(ReplacementLoop(st, st.tokens[t], st.tokens[t].replacement, 0),
                  st.tokens[t].always_replace)

\* self.__cached[item] = token, the result n of Token(...).
Stored(n, t, item) ==
    IF IsErr(n.v) THEN n
    ELSE [st |-> [n.st EXCEPT !.tokens[t].cached = Append(@, <<item, n.v>>)],
          v |-> n.v]

\* A variant made with the call_depth of its parent: what C19 rules out.
DerivedAtDepth(r, t, item) ==
    IF IsErr(r.v) THEN r
    ELSE Stored(NewToken(r.st, r.v, r.st.tokens[t].full_match,
                         r.st.tokens[t].anonymous, r.st.tokens[t].call_depth,
                         r.st.tokens[t].always_replace,
                         StrV(Brackets(r.st.tokens[t])),
                         StrV(Prefix(r.st.tokens[t])),
                         IntV(Size(r.st.tokens[t]))),
                t, item)

\* Token(self.replacement, ...), the replacement resolved to r: a Token
\* with the parent's full_match, anonymous, always_replace, prefix,
\* brackets and size, and call_depth 0.
Derived(r, t, item) ==
    IF IsErr(r.v) THEN r
    ELSE Stored(NewToken(r.st, r.v, r.st.tokens[t].full_match,
                         r.st.tokens[t].anonymous, 0,
                         r.st.tokens[t].always_replace,
                         StrV(Brackets(r.st.tokens[t])),
                         StrV(Prefix(r.st.tokens[t])),
                         IntV(Size(r.st.tokens[t]))),
                t, item)

\* A lookup that makes a new variant on every use, whatever the cache
\* holds: what C6 rules out.
GetItemAnew(st, t, item) ==
    IF IsErr(ValidateItem(item)) THEN [st |-> st, v |-> ValidateItem(item)]
    ELSE Derived(Replacement(st, t), t, item)

\* Token.__getitem__: the cached variant for item, made on first use.
GetItem(st, t, item) ==
    IF IsErr(ValidateItem(item)) THEN [st |-> st, v |-> ValidateItem(item)]
    ELSE IF PairsGet(st.tokens[t].cached, item) # Unset
         THEN [st |-> st, v |-> PairsGet(st.tokens[t].cached, item)]
    ELSE Derived(Replacement(st, t), t, item)

\* self.__cached.get(key): a Token key hashes and compares as its
\* placeholder text.
CachedGet(st, cached, key) ==
    IF key.k = "token"
    THEN PairsGet(cached, StrV(Placeholder(st.tokens[key.tok])))
    ELSE PairsGet(cached, key)

RECURSIVE ResetLoop(_, _, _)

\* token.__replacement__ = self.replacement, the replacement resolved to
\* r: the assignment sets the attribute __replacement__ of the variant u.
Refreshed(r, u, t, keys) ==
    IF IsErr(r.v) THEN r
    ELSE ResetLoop([r.st EXCEPT !.tokens[u].dunder = r.v], t, Tail(keys))

\* The for loop of reset_cache.
ResetLoop(st, t, keys) ==
    IF keys = <<>> THEN [st |-> st, v |-> NoneV]
    ELSE LET u == CachedGet(st, st.tokens[t].cached, keys[1])
         IN IF u = Unset THEN ResetLoop(st, t, Tail(keys))
            ELSE Refreshed(Replacement(st, t), u.tok, t, keys)

\* A reset that goes through every key of the cache, whichever keys are
\* named: what C18 rules out.
ResetCacheOfAll(st, t, keys) ==
    ResetLoop(st, t, [i \in 1..Len(st.tokens[t].cached) |-> st.tokens[t].cached[i][1]])

\* Token.reset_cache(*keys)
ResetCache(st, t, keys) ==
    LET bad == {i \in 1..Len(keys) : IsErr(ValidateItem(keys[i]))}
        values == PairsValues(st.tokens[t].cached)
    IN IF bad # {} THEN [st |-> st, v |-> ErrV("TypeError")]
       ELSE ResetLoop(st, t, IF keys # <<>> THEN keys ELSE values)

\* Token.__cleanup__: reset_cache(reset) for an int or a str,
\* reset_cache(*reset) for an iterable that is not empty, reset_cache() for
\* True.
Cleanup(st, t, reset) ==
    LET keys == CASE reset.k \in {"int", "str"} -> <<reset>>
                  [] reset.k \in {"list", "tuple"} -> reset.items
                  [] reset.k = "set" -> SetToSeq(reset.elems)
                  [] OTHER -> <<>>
    IN IF keys # <<>> \/ reset = BoolV(TRUE) THEN ResetCache(st, t, keys)
       ELSE [st |-> st, v |-> NoneV]

RECURSIVE FullMatchLoopLax(_, _, _, _)
\* A loop that lets an embedded placeholder pass: what C1 rules out.
FullMatchLoopLax(st, t, toks, result) ==
    IF toks = <<>> THEN [st |-> st, v |-> StrV(result)]
    ELSE LET text == Placeholder(st.tokens[toks[1].tok])
         IN IF text = result THEN Replacement(st, t)
            ELSE FullMatchLoopLax(st, t, Tail(toks), result)

RECURSIVE FullMatchLoop(_, _, _, _)
\* The for loop of the full_match branch of inject_into over the Token
\* itself and its cached variants: an exact match is replaced by the
\* replacement of self, an embedded placeholder raises.
FullMatchLoop(st, t, toks, result) ==
    IF toks = <<>> THEN [st |-> st, v |-> StrV(result)]
    ELSE LET text == Placeholder(st.tokens[toks[1].tok])
         IN IF text = result THEN Replacement(st, t)
            ELSE IF StrIn(text, result) THEN [st |-> st, v |-> ErrV("ValueError")]
            ELSE FullMatchLoop(st, t, Tail(toks), result)

RECURSIVE ReplaceLoop(_, _, _, _)

\* result.replace(str(self), str(self.replacement), 1), the replacement
\* resolved to r.
Replaced(r, t, result, count) ==
    IF IsErr(r.v) THEN r
    ELSE ReplaceLoop(r.st, t,
                     StrReplace1(result, Placeholder(r.st.tokens[t]), StrOf(r.v)),
                     count - 1)

\* for _ in range(count): one occurrence replaced by the string form of a
\* replacement resolved for that occurrence.
ReplaceLoop(st, t, result, count) ==
    IF count = 0 THEN [st |-> st, v |-> StrV(result)]
    ELSE Replaced(Replacement(st, t), t, result, count)

RECURSIVE InjectInto(_, _, _, _, _)
RECURSIVE InjectEach(_, _, _)

\* result = token.inject_into(result) returned r: on to the variants left.
Injected(r, toks) ==
    IF IsErr(r.v) THEN r ELSE InjectEach(r.st, Tail(toks), r.v)

\* for token in cached: result = token.inject_into(result)
InjectEach(st, toks, result) ==
    IF toks = <<>> THEN [st |-> st, v |-> result]
    ELSE Injected(InjectInto(st, toks[1].tok, result, BoolV(FALSE), TRUE), toks)

\* The Token's own occurrences replaced with the result own: the cached
\* variants follow.
ThenCached(own, cached) ==
    IF IsErr(own.v) THEN own ELSE InjectEach(own.st, cached, own.v)

\* The two branches of inject_into on the text result.
Substitute(st, t, result, cached) ==
    IF st.tokens[t].full_match
    THEN FullMatchLoop(st, t, <<TokenV(t)>> \o cached, result)
    ELSE ThenCached(ReplaceLoop(st, t, result,
                                StrCount(result, Placeholder(st.tokens[t]))),
                    cached)

\* return result, after the cleanup that returned c.
Returned(c, result) ==
    IF IsErr(c.v) THEN c ELSE [st |-> c.st, v |-> result]

\* self.__cleanup__(reset), after the substitution that returned r.
ThenCleanup(r, t, reset) ==
    IF IsErr(r.v) THEN r ELSE Returned(Cleanup(r.st, t, reset), r.v)

\* Token.inject_into(obj, reset=reset, deep=deep)
InjectInto(st, t, obj, reset, deep) ==
    IF IsErr(ValidateObj(obj)) THEN [st |-> st, v |-> ValidateObj(obj)]
    ELSE ThenCleanup(Substitute(st, t, ObjStr(st, obj),
                                IF deep THEN PairsValues(st.tokens[t].cached)
                                ELSE <<>>),
                     t, reset)

\* The character class [a-zA-Z_\d\-].
IsIdChar(c) == IsAlnum(c) \/ c \in {"_", "-"}

RECURSIVE MatchAtoms(_, _, _)
\* The position after a match of the atoms at position i of text, 0 when
\* they do not match there.
MatchAtoms(atoms, text, i) ==
    IF atoms = <<>> THEN i
    ELSE LET a == atoms[1]
             ok == /\ i + a.n - 1 <= Len(text)
                   /\ \A j \in i..(i + a.n - 1) :
                        IF a.a = "lit" THEN text[j] = a.c ELSE IsIdChar(text[j])
         IN IF ok THEN MatchAtoms(Tail(atoms), text, i + a.n) ELSE 0

RECURSIVE FirstMatch(_, _, _)
\* pats[1] | pats[2] | ... at position i: the end of the first alternative
\* that matches, 0 when none does.
FirstMatch(pats, text, i) ==
    IF pats = <<>> THEN 0
    ELSE LET j == MatchAtoms(pats[1], text, i)
         IN IF j # 0 THEN j ELSE FirstMatch(Tail(pats), text, i)

RECURSIVE FindAllFrom(_, _, _)
FindAllFrom(pats, text, i) ==
    IF i > Len(text) THEN {}
    ELSE LET j == FirstMatch(pats, text, i)
         IN IF j = 0 THEN FindAllFrom(pats, text, i + 1)
            ELSE {SubSeq(text, i, j - 1)} \cup FindAllFrom(pats, text, j)

\* set(findall("|".join(pats), text)): the distinct non-overlapping matches;
\* with no pattern the expression is empty and matches the empty string.
FindAll(pats, text) ==
    IF pats = <<>> THEN {<<>>} ELSE FindAllFrom(pats, text, 1)

\* A scan that handles the first placeholder found and no other: what C9
\* rules out.
ParseLoopOnce(st, keys, result) ==
    IF keys = <<>> THEN [st |-> st, v |-> result]
    ELSE LET token == PairsGet(st.instances, keys[1])
         IN IF token = Unset THEN [st |-> st, v |-> result]
            ELSE InjectInto(st, token.tok, result, BoolV(FALSE), FALSE)

RECURSIVE ParseLoop(_, _, _)

\* result = token.inject_into(result, deep=False) returned r: on to the
\* placeholders left.
Parsed(r, keys) ==
    IF IsErr(r.v) THEN r ELSE ParseLoop(r.st, Tail(keys), r.v)

\* for key in placeholders, in the order keys.
ParseLoop(st, keys, result) ==
    IF keys = <<>> THEN [st |-> st, v |-> result]
    ELSE LET token == PairsGet(st.instances, keys[1])
         IN IF token = Unset THEN ParseLoop(st, Tail(keys), result)
            ELSE Parsed(InjectInto(st, token.tok, result, BoolV(FALSE), FALSE), keys)

\* Token.parse(obj), the set of placeholders iterated in the order keys.
Parse(st, obj, keys) ==
    LET e == ValidateObj(obj)
    IN IF IsErr(e) THEN [st |-> st, v |-> e]
       ELSE ParseLoop(st, keys, StrV(ObjStr(st, obj)))

\* The chain cls.core.__set_core__(core) records on the Proxy that
\* TokenMeta.core has just made: Proxy has no __set_core__, so __getattr__
\* and __call__ record the hop and the call, and Proxy.__core__ stays.
SetCoreChain(new) ==
    QueueCall(QueueGetAttr(NewQueue, "__set_core__"), <<new>>, <<>>)

RECURSIVE CleanupEach(_, _)

\* token.__cleanup__(cleanup) returned r: on to the Tokens left.
CleanedUp(r, todo) ==
    IF IsErr(r.v) THEN r ELSE CleanupEach(r.st, Tail(todo))

\* token.__cleanup__(cleanup) for every <<token, cleanup>> of todo.
CleanupEach(st, todo) ==
    IF todo = <<>> THEN [st |-> st, v |-> NoneV]
    ELSE CleanedUp(Cleanup(st, todo[1][1].tok, todo[1][2]), todo)

\* Token.set_core(core, reset): the items of a Mapping, the Tokens of an
\* Iterable with True, every registered Token for True.
SetCore(st, new, reset) ==
    LET all == PairsValues(st.instances)
    IN CleanupEach(st,
           CASE reset.k = "dict" -> reset.pairs
             [] reset.k \in {"list", "tuple"} ->
                  [i \in 1..Len(reset.items) |-> <<reset.items[i], BoolV(TRUE)>>]
             [] reset = BoolV(TRUE) ->
                  [i \in 1..Len(all) |-> <<all[i], BoolV(TRUE)>>]
             [] OTHER -> <<>>)

---------------------------------------------------------------------------
(* The state machine.  calls counts the zero-argument invocations made,    *)
(* touched says whether an attribute of the backend has been read or a     *)
(* method of it invoked.  A client calls one operation at a time: the call *)
(* runs the whole operation and leaves in last what it was called with and *)
(* what it returned or raised; the client then takes the result (Return)   *)
(* and is ready for the next call.                                         *)

\* The machine state the operators work on, read off the variables.
St == [tokens |-> tokens, instances |-> instances, regex |-> regex,
       core |-> core, proxies |-> proxies, calls |-> calls,
       touched |-> touched]

\* The record of a call: op its name, t the Token it was called on (0 when
\* none), obj its first argument, reset and deep its options (for a
\* constructor call, reset holds the brackets, prefix and size given; for
\* a recording on a Chain Proxy, reset holds the key or the positional
\* arguments and order the hop name or the keyword arguments), order the
\* order a set was iterated in, v the result (filled in when the call
\* returns or raises), pre the invocation count before the call.
Rec(op, t, obj, reset, deep, order) ==
    [op |-> op, t |-> t, obj |-> obj, reset |-> reset, deep |-> deep,
     order |-> order, v |-> NoneV, pre |-> calls]

Idle == [op |-> "idle", t |-> 0, obj |-> NoneV, reset |-> NoneV, deep |-> FALSE,
         order |-> <<>>, v |-> NoneV, pre |-> 0]

Ready == last.op = "idle"

\* The operation's effects written back, its result recorded.
Commit(r, rec) ==
    /\ Ready
    /\ r.st.calls <= MaxCalls
    /\ Len(r.st.tokens) <= MaxTokens
    /\ tokens' = r.st.tokens
    /\ instances' = r.st.instances
    /\ regex' = r.st.regex
    /\ core' = r.st.core
    /\ proxies' = r.st.proxies
    /\ calls' = r.st.calls
    /\ touched' = r.st.touched
    /\ last' = [rec EXCEPT !.v = r.v]

\* The client takes the result.
Return ==
    /\ ~Ready
    /\ last' = Idle
    /\ UNCHANGED <<tokens, instances, regex, core, proxies, calls, touched>>

\* The state after the import of the package: no Token, an empty registry,
\* the backend of cocoon.core.
Init ==
    /\ tokens = <<>>
    /\ instances = <<>>
    /\ regex = {}
    /\ core = BackendV("fake")
    /\ proxies = <<>>
    /\ calls = 0
    /\ touched = FALSE
    /\ last = Idle

Tokens == 1..Len(tokens)

\* The Tokens made by a constructor call: those no Token caches.
IsVariant(toks, u) ==
    \E t \in 1..Len(toks) : \E i \in 1..Len(toks[t].cached) :
        toks[t].cached[i][2] = TokenV(u)

\* Token(replacement, full_match=..., anonymous=..., **config)
Create(replacement, full_match, anonymous, call_depth, always_replace, config) ==
    Commit(NewToken(St, replacement, full_match, anonymous, call_depth,
           always_replace, config.brackets, config.prefix, config.size),
           Rec("create", 0, replacement, config, FALSE, <<>>))

\* token[item]
Variant(t, item) ==
    Commit(GetItem(St, t, item),
           Rec("variant", t, item, NoneV, FALSE, <<>>))

\* token.inject_into(obj, reset=reset, deep=deep)
Inject(t, obj, reset, deep) ==
    Commit(InjectInto(St, t, obj, reset, deep),
           Rec("inject_into", t, obj, reset, deep, <<>>))

\* token.reset_cache(*keys)
Reset(t, keys) ==
    Commit(ResetCache(St, t, keys),
           Rec("reset_cache", t, TupleV(keys), NoneV, FALSE, <<>>))

\* Token.parse(obj), the placeholders found iterated in the order keys.
ParseAll(obj, keys) ==
    Commit(Parse(St, obj, keys),
           Rec("parse", 0, obj, NoneV, FALSE, keys))

\* Token.set_core(core, reset)
SetTheCore(new, reset) ==
    Commit(SetCore(St, new, reset),
           Rec("set_core", 0, new, reset, FALSE, SetCoreChain(new)))

\* Token.core: a new Chain Proxy.
CoreProxy ==
    Commit([st |-> [St EXCEPT !.proxies = Append(@, NewQueue)],
            v |-> ProxyV(Len(proxies) + 1)],
           Rec("core", 0, NoneV, NoneV, FALSE, <<>>))

\* An attribute access that replays the chain as soon as the hop is
\* recorded: what C16 rules out.
HopReplayed(p, name) ==
    Commit([st |-> ProxyResolve([St EXCEPT !.proxies[p] = QueueGetAttr(@, name)], p).st,
            v |-> ProxyV(p)],
           Rec("getattr", 0, ProxyV(p), NoneV, FALSE, <<name>>))

\* proxy.name
Hop(p, name) ==
    Commit([st |-> [St EXCEPT !.proxies[p] = QueueGetAttr(@, name)],
            v |-> ProxyV(p)],
           Rec("getattr", 0, ProxyV(p), NoneV, FALSE, <<name>>))

\* proxy[key]
Index(p, key) ==
    Commit([st |-> [St EXCEPT !.proxies[p] = QueueGetItem(@, key)],
            v |-> ProxyV(p)],
           Rec("getitem", 0, ProxyV(p), key, FALSE, <<>>))

\* proxy(*args, **kwargs)
Call(p, args, kwargs) ==
    Commit([st |-> [St EXCEPT !.proxies[p] = QueueCall(@, args, kwargs)],
            v |-> ProxyV(p)],
           Rec("call", 0, ProxyV(p), TupleV(args), FALSE, kwargs))

\* proxy.__resolve__()
ResolveProxy(p) ==
    Commit(ProxyResolve(St, p),
           Rec("resolve", 0, ProxyV(p), NoneV, FALSE, <<>>))

---------------------------------------------------------------------------
(* Spec: the life of a Token and its cached variants.                      *)

\* The (brackets, prefix, size) keyword arguments Tokens are made with:
\* none given, and all three given.
Configs ==
    { [brackets |-> NoneV, prefix |-> NoneV, size |-> NoneV],
      [brackets |-> StrV(<<"<", ">">>), prefix |-> StrV(<<"#">>), size |-> IntV(1)] }

\* The replacement sources: None, a generator, a recorded Chain Proxy.
Replacements == {NoneV, GenV} \cup {ProxyV(p) : p \in 1..Len(proxies)}

\* The keys cached variants are asked for.
Keys == {IntV(1), StrV(<<"a">>)}

\* The values of the reset option.
Resets == {BoolV(FALSE), BoolV(TRUE)} \cup Keys

\* The target texts: the placeholder of a Token, on its own.
Alone == {StrV(Placeholder(tokens[u])) : u \in Tokens}

\* The orders a set can be iterated in.
RECURSIVE Orders(_)
Orders(S) ==
    IF S = {} THEN {<<>>}
    ELSE UNION {{<<x>> \o o : o \in Orders(S \ {x})} : x \in S}

\* The orders Token.parse can meet the placeholders of obj in: the
\* alternatives of the joined expression and the set of matches are both
\* iterated in an order the code does not fix.
ParseOrders(obj) ==
    UNION {Orders(FindAll(pats, ObjStr(St, obj))) : pats \in Orders(regex)}

Next ==
    \/ \E r \in Replacements, fm \in BOOLEAN, an \in BOOLEAN, cf \in Configs :
          /\ \A u \in Tokens : IsVariant(tokens, u)
          /\ Create(r, fm, an, DefaultCallDepth, FALSE, cf)
    \/ \E t \in Tokens, item \in Keys : Variant(t, item)
    \/ \E t \in Tokens, obj \in Alone, reset \in Resets, deep \in BOOLEAN :
          Inject(t, obj, reset, deep)
    \/ \E t \in Tokens, keys \in {<<>>} \cup {<<x>> : x \in Keys} : Reset(t, keys)
    \/ Ready /\ \E obj \in Alone : \E keys \in ParseOrders(obj) : ParseAll(obj, keys)
    \/ \E b \in Backends, reset \in {BoolV(TRUE), BoolV(FALSE)} :
          SetTheCore(BackendV(b), reset)
    \/ Len(proxies) = 0 /\ CoreProxy
    \/ \E p \in 1..Len(proxies) : Len(proxies[p]) = 1 /\ Hop(p, "name")
    \/ Return

Spec == Init /\ [][Next]_vars

---------------------------------------------------------------------------
(* Claims about the life of a Token (checked under Spec).                  *)

\* The cached variants of the Token t: the Token references of its cache.
VariantsOf(t) == {tokens[t].cached[i][2].tok : i \in 1..Len(tokens[t].cached)}

\* What the replacement of the Token t resolves to when the invocation
\* count stands at n.
ResolvedAt(t, n) == Replacement([St EXCEPT !.calls = n], t).v

\* The values the replacement of the Token t could be resolved to during
\* the last call.
PulledInLast(t) == {ResolvedAt(t, n) : n \in last.pre..calls}

\* The variants of last.t that the last call asked to reset.
ResetByLast ==
    LET cached == tokens[last.t].cached
        named(keys) == {PairsGet(cached, keys[i]).tok :
                          i \in {j \in 1..Len(keys) : PairsGet(cached, keys[j]) # Unset}}
    IN IF last.op = "reset_cache"
       THEN IF last.obj.items = <<>> THEN VariantsOf(last.t) ELSE named(last.obj.items)
       ELSE IF last.op = "inject_into"
       THEN IF last.reset = BoolV(TRUE) THEN VariantsOf(last.t)
            ELSE IF last.reset = BoolV(FALSE) THEN {}
            ELSE named(<<last.reset>>)
       ELSE {}

\* C3: after reset_cache() or inject_into(reset=True) every cached variant,
\* and after reset_cache(k) or inject_into(reset=k) the variant under k,
\* resolves to a value the parent's replacement was resolved to during the
\* reset.
C3_ResetRefreshesVariants ==
    (last.op \in {"reset_cache", "inject_into"} /\ ~IsErr(last.v)) =>
        \A u \in ResetByLast : Replacement(St, u).v \in PulledInLast(last.t)

\* C4: after set_core(b) the shared backend is b, and every Chain Proxy
\* resolves as a replay that starts from b.
C4_SetCoreSwapsBackend ==
    (last.op = "set_core" /\ ~IsErr(last.v)) =>
        /\ core = last.obj
        /\ \A p \in 1..Len(proxies) :
              ProxyResolve(St, p).v = ReplaySteps(St, proxies[p], last.obj).v

\* C5: a substitution of the placeholder of a cached variant, by the
\* variant's own inject_into, by Token.parse or by the parent's inject_into
\* with deep=True, and with no reset, yields the value the variant was
\* created with (itself for a full_match Token, its string form otherwise)
\* and invokes nothing.
C5_VariantPinsOneInvocation ==
    \A t \in Tokens : \A u \in VariantsOf(t) :
        LET pinned == tokens[u].replacement
            expect == IF tokens[u].full_match THEN pinned ELSE StrV(StrOf(pinned))
            way == \/ last.op = "inject_into" /\ last.t = u
                   \/ last.op = "inject_into" /\ last.t = t /\ last.deep
                   \/ last.op = "parse" /\ ~tokens[u].anonymous
        IN (/\ way
            /\ last.obj = StrV(Placeholder(tokens[u]))
            /\ last.reset \in {BoolV(FALSE), NoneV})
           => last.v = expect /\ calls = last.pre

\* C6 (state part): token[k] returns the Token cached under k; the
\* variants under two keys are two Tokens, with ids and placeholder texts
\* different from each other's and from the parent's.
VariantsDistinct ==
    /\ (last.op = "variant" /\ ~IsErr(last.v)) =>
          last.v = PairsGet(tokens[last.t].cached, last.obj)
    /\ \A t \in Tokens :
          LET cached == tokens[t].cached
          IN /\ \A i \in 1..Len(cached) :
                   LET u == cached[i][2].tok
                   IN /\ u # t
                      /\ tokens[u].id # tokens[t].id
                      /\ Placeholder(tokens[u]) # Placeholder(tokens[t])
             /\ \A i, j \in 1..Len(cached) :
                   LET u == cached[i][2].tok
                       w == cached[j][2].tok
                   IN i # j =>
                        /\ cached[i][1] # cached[j][1]
                        /\ u # w
                        /\ tokens[u].id # tokens[w].id
                        /\ Placeholder(tokens[u]) # Placeholder(tokens[w])

\* C6 (step part): no operation removes or replaces an entry of a cache,
\* and no Token changes its id.
VariantsKept ==
    \A t \in Tokens :
        /\ t <= Len(tokens')
        /\ tokens'[t].id = tokens[t].id
        /\ Len(tokens'[t].cached) >= Len(tokens[t].cached)
        /\ \A i \in 1..Len(tokens[t].cached) :
              tokens'[t].cached[i] = tokens[t].cached[i]

\* C6: cached variants are stable and distinct across variant, inject_into,
\* reset_cache and set_core.
C6_VariantsStableAndDistinct == []VariantsDistinct /\ [][VariantsKept]_vars

\* C6 witness: a second lookup of a key returned the Token cached before,
\* with two variants in the cache.
C6_Witness ==
    /\ last.op = "variant"
    /\ ~IsErr(last.v)
    /\ last.v.tok < Len(tokens)
    /\ Len(tokens[last.t].cached) = 2

---------------------------------------------------------------------------
(* SpecResolve: the resolution of a Token's replacement.  One Token is     *)
(* made with a replacement source, a call_depth and always_replace drawn   *)
(* from the sets below, and its replacement is read.                       *)

\* The values a chain of callables ends in.
Finals == {NoneV, IntV(0), StrV(<<"a">>)}

\* The queues of the recorded Chain Proxy: core.data, core.data["x"],
\* core.baz, core.name and core.baz().
Recorded ==
    { QueueGetAttr(NewQueue, "data"),
      QueueGetItem(QueueGetAttr(NewQueue, "data"), StrV(<<"x">>)),
      QueueGetAttr(NewQueue, "baz"),
      QueueGetAttr(NewQueue, "name"),
      QueueCall(QueueGetAttr(NewQueue, "baz"), <<>>, <<>>) }

\* The replacement sources: a value, 1..MaxDepth+1 nested callables around
\* a value, a factory of factories, a generator, the recorded Chain Proxy.
Chains ==
    Finals \cup {FnV(d, f) : d \in 1..(MaxDepth + 1), f \in Finals}
           \cup {EndlessV, GenV, ProxyV(1)}

\* token.replacement
GetReplacement(t) ==
    Commit(Replacement(St, t),
           Rec("replacement", t, tokens[t].replacement, NoneV, FALSE, <<>>))

InitResolve ==
    \E rep \in Chains, depth \in 0..MaxDepth, always \in BOOLEAN, q \in Recorded :
        LET empty == [tokens |-> <<>>, instances |-> <<>>, regex |-> {},
                      core |-> BackendV("fake"), proxies |-> <<q>>, calls |-> 0,
                      touched |-> FALSE]
            r == NewToken(empty, rep, FALSE, FALSE, depth, always, NoneV, NoneV, NoneV)
        IN /\ tokens = r.st.tokens
           /\ instances = r.st.instances
           /\ regex = r.st.regex
           /\ core = r.st.core
           /\ proxies = r.st.proxies
           /\ calls = 0
           /\ touched = FALSE
           /\ last = Idle

NextResolve ==
    \/ \E t \in Tokens : GetReplacement(t)
    \/ \E t \in Tokens \cap {1} : Variant(t, IntV(1))
    \/ Return

SpecResolve == InitResolve /\ [][NextResolve]_vars

\* What is left of the chain c after n invocations.
After(c, n) ==
    IF n = 0 THEN c
    ELSE IF c.depth = n THEN c.final
    ELSE FnV(c.depth - n, c.final)

\* C2: with call_depth n, a chain of at most n nested callables resolves to
\* its final value; a longer chain raises RuntimeError when always_replace
\* is false and yields what is left after n invocations when it is true; a
\* Chain Proxy resolves to what its replayed value resolves to with the
\* same call_depth, the replay invoking nothing of the n.
C2_CallDepthBoundary ==
    last.op = "replacement" =>
        LET tok == tokens[last.t]
            rep == tok.replacement
            n == tok.call_depth
            pre == [St EXCEPT !.calls = last.pre]
            replayed == ProxyResolve(pre, rep.ref)
            direct == Replacement([replayed.st EXCEPT
                                      !.tokens[last.t].replacement = replayed.v],
                                  last.t)
        IN /\ rep \in Finals => last.v = rep /\ calls = last.pre
           /\ (rep.k = "fn" /\ rep.depth <= n) =>
                 last.v = rep.final /\ calls = last.pre + rep.depth
           /\ (rep.k = "fn" /\ rep.depth > n) =>
                 /\ calls = last.pre + n
                 /\ last.v = IF tok.always_replace THEN After(rep, n)
                             ELSE ErrV("RuntimeError")
           /\ rep.k = "proxy" =>
                 /\ last.v = IF IsErr(replayed.v) THEN replayed.v ELSE direct.v
                 /\ ~IsErr(replayed.v) => calls = direct.st.calls
                 /\ (~IsErr(replayed.v) /\ ~Callable(replayed.v)) =>
                       last.v = replayed.v /\ calls = last.pre

\* C2 witness: a chain of call_depth + 1 callables was resolved with
\* call_depth >= 1 and always_replace, and what came back is the one
\* callable left.
C2_Witness ==
    /\ last.op = "replacement"
    /\ tokens[last.t].replacement.k = "fn"
    /\ tokens[last.t].call_depth >= 1
    /\ tokens[last.t].replacement.depth = tokens[last.t].call_depth + 1
    /\ tokens[last.t].always_replace
    /\ last.v = FnV(1, tokens[last.t].replacement.final)

---------------------------------------------------------------------------
(* SpecText: substitution into texts.  A Token, a cached variant of it and *)
(* a second Token are made; inject_into and Token.parse are called on      *)
(* texts put together from placeholders, placeholders cut short by their   *)
(* last character, and plain text.                                         *)

\* The keyword arguments left out: the class defaults apply.
NoConfig == [brackets |-> NoneV, prefix |-> NoneV, size |-> NoneV]

\* The replacement sources of the first Token.
TextReplacements == {NoneV, GenV, StrV(<<"v">>), StrV(<<"}">>)}

\* The replacement sources of the second Token: a plain text, and the
\* placeholder of the first.
SecondReplacements ==
    {StrV(<<"v">>)} \cup {StrV(Placeholder(tokens[u])) : u \in Tokens \cap {1}}

\* A text without its last character.
Cut(s) == SubSeq(s, 1, Len(s) - 1)

\* The pieces texts are put together from.
Chunks ==
    {Placeholder(tokens[u]) : u \in Tokens}
        \cup {Cut(Placeholder(tokens[u])) : u \in Tokens}
        \cup {<<"x">>}

RECURSIVE Joined(_)
\* The texts of n chunks.
Joined(n) ==
    IF n = 0 THEN {<<>>} ELSE {c \o r : c \in Chunks, r \in Joined(n - 1)}

\* The target texts: 1..MaxChunks chunks.
Texts == {StrV(s) : s \in UNION {Joined(n) : n \in 1..MaxChunks}}

NextText ==
    \/ \E r \in TextReplacements, fm \in BOOLEAN, an \in BOOLEAN :
          /\ Tokens = {}
          /\ Create(r, fm, an, DefaultCallDepth, FALSE, NoConfig)
    \/ \E r \in SecondReplacements, an \in BOOLEAN :
          /\ Tokens # {}
          /\ \A u \in Tokens \ {1} : IsVariant(tokens, u)
          /\ Create(r, FALSE, an, DefaultCallDepth, FALSE, NoConfig)
    \/ \E t \in Tokens \cap {1} : Variant(t, IntV(1))
    \/ Ready /\ \E t \in Tokens, obj \in Texts, deep \in BOOLEAN,
                   reset \in {BoolV(FALSE), BoolV(TRUE)} : Inject(t, obj, reset, deep)
    \/ Ready /\ \E obj \in Texts : \E keys \in ParseOrders(obj) : ParseAll(obj, keys)
    \/ Return

SpecText == Init /\ [][NextText]_vars

---------------------------------------------------------------------------
(* Claims about substitution (checked under SpecText).                     *)

\* The last call was inject_into on a full_match Token.
FullMatchCall == last.op = "inject_into" /\ tokens[last.t].full_match

\* The placeholder of the Token the last call was made on.
OwnText == Placeholder(tokens[last.t])

\* The placeholder of a cached variant that a deep call looks for occurs in
\* the text s.
VariantIn(s) ==
    last.deep /\ \E u \in VariantsOf(last.t) : StrIn(Placeholder(tokens[u]), s)

\* C1, first case: a text equal to the placeholder yields the resolved
\* replacement itself, or what its resolution raises.
ExactYieldsValue ==
    (FullMatchCall /\ last.obj.s = OwnText) => last.v = ResolvedAt(last.t, last.pre)

\* C1, second case: a placeholder embedded in a longer text raises.
EmbeddedRaises ==
    (FullMatchCall /\ StrIn(OwnText, last.obj.s) /\ last.obj.s # OwnText) =>
        last.v = ErrV("ValueError")

ResolvedInLast(u) ==
    {ResolvedAt(u, n) :
        n \in last.pre..(IF calls > last.pre THEN calls - 1 ELSE calls)}

RECURSIVE ReplaceAll(_, _, _, _)
\* The text s from position i on, every occurrence of old replaced by new,
\* left to right.
ReplaceAll(s, old, new, i) ==
    IF i > Len(s) THEN <<>>
    ELSE IF OccursAt(s, old, i) THEN new \o ReplaceAll(s, old, new, i + Len(old))
    ELSE <<s[i]>> \o ReplaceAll(s, old, new, i + 1)

\* C10: inject_into on a Token that is not full_match, with no cached
\* variant involved, returns the text with every occurrence of the
\* placeholder replaced by the string form of one resolved value, and with
\* no occurrence left when that string does not contain the placeholder.
C10_EveryOccurrenceOneValue ==
    (/\ last.op = "inject_into"
     /\ ~tokens[last.t].full_match
     /\ ~(last.deep /\ VariantsOf(last.t) # {})
     /\ ~IsErr(last.v)) =>
        \E v \in ResolvedInLast(last.t) :
            /\ last.v = StrV(ReplaceAll(last.obj.s, OwnText, StrOf(v), 1))
            /\ ~StrIn(OwnText, StrOf(v)) => ~StrIn(OwnText, last.v.s)

\* The Token u is in the registry under its placeholder.
Registered(u) == PairsGet(instances, Placeholder(tokens[u])) = TokenV(u)

\* The registered Tokens that are not full_match.
Substituted == {u \in Tokens : Registered(u) /\ ~tokens[u].full_match}

\* The placeholder of a registered full_match Token occurs in the text s.
FullMatchIn(s) ==
    \E u \in Tokens :
        Registered(u) /\ tokens[u].full_match /\ StrIn(Placeholder(tokens[u]), s)

RECURSIVE Expansions(_, _)
\* The texts that the text s from position i on becomes when every
\* occurrence of the placeholder of a registered Token that is not
\* full_match is replaced by the string form of a value its replacement was
\* resolved to, and every other character is kept.
Expansions(s, i) ==
    IF i > Len(s) THEN {<<>>}
    ELSE LET owners == {u \in Substituted : OccursAt(s, Placeholder(tokens[u]), i)}
         IN IF owners = {} THEN {<<s[i]>> \o e : e \in Expansions(s, i + 1)}
            ELSE LET u == CHOOSE w \in owners : TRUE
                 IN {StrOf(v) \o e : v \in ResolvedInLast(u),
                                     e \in Expansions(s, i + Len(Placeholder(tokens[u])))}

Inert(s) ==
    /\ s # <<>>
    /\ \A u \in Tokens : Registered(u) =>
          \A i \in 1..Len(s) : ~StrIn(<<s[i]>>, Placeholder(tokens[u]))

---------------------------------------------------------------------------
(* SpecProxy: recording on Chain Proxies and resolving them.  A chain is   *)
(* one hop off the backend followed by calls and index operations; the     *)
(* arguments of a call are plain values or Chain Proxies made before,      *)
(* alone or inside a list.                                                 *)

\* The steps and operations recorded on the proxy p.
Ops(p) ==
    LET RECURSIVE Sum(_)
        Sum(i) == IF i = 0 THEN 0 ELSE Len(proxies[p][i].params) + Sum(i - 1)
    IN (Len(proxies[p]) - 1) + Sum(Len(proxies[p]))

\* The Chain Proxies made before p.
Earlier(p) == {ProxyV(q) : q \in 1..(p - 1)}

\* The positional arguments of a recorded call.
ArgsOf(p) ==
    {<<>>, <<IntV(1)>>} \cup {<<x>> : x \in Earlier(p)}
                        \cup {<<ListV(<<x>>)>> : x \in Earlier(p)}

\* The keyword arguments of a recorded call.
KwargsOf(p) == {<<>>} \cup {<< <<StrV(<<"b", "a", "r">>), x>> >> : x \in Earlier(p)}

NextProxy ==
    \/ Len(proxies) < MaxProxies /\ CoreProxy
    \/ \E p \in 1..Len(proxies), name \in {"baz", "foo", "data"} :
          Len(proxies[p]) = 1 /\ Hop(p, name)
    \/ \E p \in 1..Len(proxies) :
          Len(proxies[p]) > 1 /\ Ops(p) < MaxOps /\ Index(p, StrV(<<"x">>))
    \/ \E p \in 1..Len(proxies) : \E args \in ArgsOf(p), kwargs \in KwargsOf(p) :
          Len(proxies[p]) > 1 /\ Ops(p) < MaxOps /\ Call(p, args, kwargs)
    \/ \E p \in 1..Len(proxies) : ResolveProxy(p)
    \/ Return

SpecProxy == Init /\ [][NextProxy]_vars

---------------------------------------------------------------------------
(* Claims about the Chain Proxy (checked under SpecProxy).                 *)

RECURSIVE DirectArg(_, _)
RECURSIVE DirectArgs(_, _, _)
RECURSIVE DirectParams(_, _, _)
RECURSIVE DirectSteps(_, _, _)

\* The recorded operations of the queue performed on obj one after the
\* other, every Chain Proxy among the arguments of a call, at top level or
\* inside a list, a tuple or a mapping, replaced by what it resolves to
\* before the call is made.
DirectSteps(st, queue, obj) ==
    IF queue = <<>> THEN [st |-> st, v |-> obj]
    ELSE LET o == IF queue[1].item # "" THEN GetAttr(obj, queue[1].item) ELSE obj
         IN IF IsErr(o) THEN [st |-> st, v |-> o]
            ELSE LET r == DirectParams(st, queue[1].params, o)
                 IN IF IsErr(r.v) THEN r ELSE DirectSteps(r.st, Tail(queue), r.v)

DirectParams(st, params, obj) ==
    IF params = <<>> THEN [st |-> st, v |-> obj]
    ELSE IF params[1].k = "Item" THEN
        LET r == GetIndex(obj, params[1].key)
        IN IF IsErr(r) THEN [st |-> st, v |-> r]
           ELSE DirectParams(st, Tail(params), r)
    ELSE LET a == DirectArgs(st, params[1].args, <<>>)
             kw == DirectArgs(a.st, [i \in 1..Len(params[1].kwargs) |->
                                        params[1].kwargs[i][2]], <<>>)
             r == CallObj(kw.st, obj, a.v,
                          [i \in 1..Len(params[1].kwargs) |->
                              <<params[1].kwargs[i][1], kw.v[i]>>])
         IN IF IsErr(r.v) THEN r ELSE DirectParams(r.st, Tail(params), r.v)

DirectArgs(st, xs, done) ==
    IF xs = <<>> THEN [st |-> st, v |-> done]
    ELSE LET r == DirectArg(st, xs[1])
         IN DirectArgs(r.st, Tail(xs), Append(done, r.v))

DirectArg(st, x) ==
    IF x.k = "proxy" THEN DirectSteps(st, st.proxies[x.ref], st.core)
    ELSE IF x.k \in {"list", "tuple"} THEN
        LET r == DirectArgs(st, x.items, <<>>)
        IN [st |-> r.st, v |-> [k |-> x.k, items |-> r.v]]
    ELSE IF x.k = "dict" THEN
        LET r == DirectArgs(st, [i \in 1..Len(x.pairs) |-> x.pairs[i][2]], <<>>)
        IN [st |-> r.st,
            v |-> DictV([i \in 1..Len(x.pairs) |-> <<x.pairs[i][1], r.v[i]>>])]
    ELSE [st |-> st, v |-> x]

\* The machine state the last call started in.
CallStart == [St EXCEPT !.calls = last.pre]

\* C7: __resolve__ returns what the recorded hops, index operations and
\* calls return when performed directly on the backend in the recorded
\* order, the Chain Proxies among the arguments resolved first.
C7_RoundTrip ==
    last.op = "resolve" =>
        last.v = DirectSteps(CallStart, proxies[last.obj.ref], core).v

\* C8: __resolve__ does not return a callable it has reached at the end of
\* the chain: it returns what the callable returns when invoked with no
\* arguments.
C8_NoBareCallable ==
    last.op = "resolve" =>
        LET reached == DirectSteps(CallStart, proxies[last.obj.ref], core)
        IN (~IsErr(reached.v) /\ Callable(reached.v)) =>
              last.v = CallObj(reached.st, reached.v, <<>>, <<>>).v

---------------------------------------------------------------------------
(* SpecDeep: deep_apply over nested values.  A Chain Proxy is recorded,    *)
(* then deep_apply is called the way _resolve calls it, with the predicate *)
(* function, and with the class Proxy in the predicate's place.            *)

\* The values that are no containers: an int, a str, None, a Chain Proxy.
Leaves == {IntV(1), StrV(<<"x">>), NoneV} \cup {ProxyV(p) : p \in 1..Len(proxies)}

\* The values of at most n containers nested in one another: lists,
\* tuples, dicts and, of hashable leaves, sets.
RECURSIVE Nested(_)
Nested(n) ==
    IF n = 0 THEN Leaves
    ELSE LET inner == Nested(n - 1)
         IN inner
            \cup {ListV(<<a, b>>) : a \in inner, b \in Leaves}
            \cup {TupleV(<<a>>) : a \in inner}
            \cup {DictV(<< <<StrV(<<"k">>), a>> >>) : a \in inner}
            \cup {SetV(S) : S \in (SUBSET Leaves) \ {{}}}

\* The second argument: the class Proxy, and lambda x: isinstance(x, Proxy).
TypeArgs == {TypeArg({"proxy"}), IsProxyLambda}

\* deep_apply(obj, type_, lambda p: p.__resolve__())
DeepApplyCall(obj, type_) ==
    Commit(DeepApply(St, obj, type_, "resolve"),
           Rec("deep_apply", 0, obj, type_, FALSE, <<>>))

NextDeep ==
    \/ Len(proxies) = 0 /\ CoreProxy
    \/ \E p \in 1..Len(proxies), name \in {"data", "baz"} :
          Len(proxies[p]) = 1 /\ Hop(p, name)
    \/ Ready /\ \E obj \in Nested(MaxNest), type_ \in TypeArgs :
                   DeepApplyCall(obj, type_)
    \/ Return

SpecDeep == Init /\ [][NextDeep]_vars

\* The value the traversal is to return: a leaf of one of the kinds
\* replaced by what the transform returns for it, every other leaf as it
\* is, every container a container of its kind over the same keys and
\* positions.
RECURSIVE Transformed(_, _)
Transformed(obj, kinds) ==
    IF obj.k \in kinds THEN ProxyResolve(St, obj.ref).v
    ELSE CASE obj.k = "dict" ->
                DictV([i \in 1..Len(obj.pairs) |->
                          <<obj.pairs[i][1], Transformed(obj.pairs[i][2], kinds)>>])
           [] obj.k \in {"list", "tuple"} ->
                [k |-> obj.k,
                 items |-> [i \in 1..Len(obj.items) |-> Transformed(obj.items[i], kinds)]]
           [] obj.k = "set" -> SetV({Transformed(x, kinds) : x \in obj.elems})
           [] OTHER -> obj

\* C11: deep_apply returns the value with every Chain Proxy leaf replaced
\* by what it resolves to, and every other leaf, a str leaf included, and
\* the kind, keys and order of every container as they were.
C11_OnlyMatchingLeaves ==
    last.op = "deep_apply" => last.v = Transformed(last.obj, {"proxy"})

---------------------------------------------------------------------------
(* SpecConfig: Tokens made with every combination of brackets, prefix and  *)
(* size given and left out, valid and invalid, and variants of them.       *)

\* A value that passes _validate_meta for each keyword argument, None
\* standing for an argument left out: an empty prefix passes and falls back
\* to the class default.
ValidConfigs ==
    [brackets : {NoneV, StrV(<<"<", ">">>), StrV(<<"(", "(", ")", ")">>)},
     prefix : {NoneV, StrV(<<"#">>), StrV(<<>>)},
     size : {NoneV, IntV(1), IntV(2)}]

\* Values that do not pass: brackets empty, of one character, of odd
\* length, with a letter, not a str; a prefix with a letter, not a str; a
\* size of zero, negative, a str, a bool.
BadBrackets ==
    {StrV(<<>>), StrV(<<"<">>), StrV(<<"<", "<", ">">>), StrV(<<"a", ">">>), IntV(2)}
BadPrefixes == {StrV(<<"p">>), IntV(1)}
BadSizes == {IntV(0), IntV(-1), StrV(<<"8">>), BoolV(TRUE)}

\* The configurations with one argument that does not pass, the other two
\* left out or valid.
InvalidConfigs ==
    LET rest == {[brackets |-> NoneV, prefix |-> NoneV, size |-> NoneV],
                 [brackets |-> StrV(<<"<", ">">>), prefix |-> StrV(<<"#">>),
                  size |-> IntV(1)]}
    IN {[c EXCEPT !.brackets = b] : c \in rest, b \in BadBrackets}
       \cup {[c EXCEPT !.prefix = x] : c \in rest, x \in BadPrefixes}
       \cup {[c EXCEPT !.size = z] : c \in rest, z \in BadSizes}

NextConfig ==
    \/ \E cf \in ValidConfigs \cup InvalidConfigs, an \in BOOLEAN :
          /\ Len(tokens) < MaxTokens - 1
          /\ Create(NoneV, FALSE, an, DefaultCallDepth, FALSE, cf)
    \/ \E t \in Tokens : Variant(t, IntV(1))
    \/ Return

SpecConfig == Init /\ [][NextConfig]_vars

\* The expression matches the whole of the text.
FullMatches(rx, text) == MatchAtoms(rx, text, 1) = Len(text) + 1

\* C12: every entry of __instances__ is keyed by the placeholder text of
\* its Token (first half of the brackets, prefix, id, second half), and
\* __regex__ holds the expression generated for the Token's brackets,
\* prefix and id length, which matches that text.
C12_RegistryInvariant ==
    \A i \in 1..Len(instances) :
        LET key == instances[i][1]
            tok == tokens[instances[i][2].tok]
            b == Brackets(tok)
            rx == GenerateRegex(b, Prefix(tok), tok.id)
        IN /\ key = Placeholder(tok)
           /\ key = SubSeq(b, 1, Len(b) \div 2) \o Prefix(tok) \o tok.id
                      \o SubSeq(b, Len(b) \div 2 + 1, Len(b))
           /\ rx \in regex
           /\ FullMatches(rx, key)
           /\ \E x \in regex : FullMatches(x, key)

\* C12 witness: the registry holds a Token made with brackets, prefix and
\* size of its own and a Token whose empty prefix fell back to the default.
C12_Witness ==
    /\ \E i \in 1..Len(instances) :
          LET tok == tokens[instances[i][2].tok]
          IN /\ tok.brackets \notin {NoneV, StrV(DefaultBrackets)}
             /\ tok.prefix = StrV(<<"#">>)
             /\ tok.size = IntV(2)
    /\ \E i \in 1..Len(instances) :
          tokens[instances[i][2].tok].prefix = StrV(<<>>)

---------------------------------------------------------------------------
(* Claims about the registry (checked under Spec and SpecConfig).          *)

\* The Token u is a value of __instances__ under its own placeholder text.
IsRegistered(u) == PairsGet(instances, Placeholder(tokens[u])) = TokenV(u)

\* C13: every cached variant, whatever its parent, is a Token that is not
\* anonymous and that __instances__ holds under its placeholder text.
C13_VariantsRegistered ==
    \A t \in Tokens : \A u \in VariantsOf(t) :
        ~tokens[u].anonymous /\ IsRegistered(u)

\* C14 (state part): a Token made with anonymous=True is no value of
\* __instances__, a Token made with anonymous=False is one, under its
\* placeholder text.
MembersAreTheNamed ==
    \A u \in Tokens :
        IF tokens[u].anonymous
        THEN \A i \in 1..Len(instances) : instances[i][2] # TokenV(u)
        ELSE IsRegistered(u)

\* C14 (step part): no operation takes an entry out of __instances__ or an
\* expression out of __regex__.
RegistryGrows ==
    /\ Len(instances') >= Len(instances)
    /\ \A i \in 1..Len(instances) : instances'[i] = instances[i]
    /\ regex \subseteq regex'

\* C14: registry membership follows the anonymous flag, and the registry
\* only grows, across inject_into, parse, reset_cache, set_core and
\* __getitem__.
C14_RegistryMembership == []MembersAreTheNamed /\ [][RegistryGrows]_vars

\* C14 witness: with a Token and a variant of it registered, a call of
\* inject_into, parse, reset_cache or set_core has returned.
C14_Witness ==
    /\ last.op \in {"inject_into", "parse", "reset_cache", "set_core"}
    /\ ~IsErr(last.v)
    /\ Len(instances) >= 2
    /\ Cardinality(regex) >= 1

\* The configuration is invalid: brackets that are no str, of odd length,
\* shorter than 2 or with an alphanumeric character; a prefix that is no
\* str or has an alphanumeric character; a size that is no int or is not
\* positive.  An argument left out is valid.
IsInvalid(cf) ==
    \/ /\ cf.brackets # NoneV
       /\ \/ cf.brackets.k # "str"
          \/ Len(cf.brackets.s) % 2 = 1
          \/ Len(cf.brackets.s) < 2
          \/ \E i \in 1..Len(cf.brackets.s) : IsAlnum(cf.brackets.s[i])
    \/ /\ cf.prefix # NoneV
       /\ \/ cf.prefix.k # "str"
          \/ \E i \in 1..Len(cf.prefix.s) : IsAlnum(cf.prefix.s[i])
    \/ /\ cf.size # NoneV
       /\ \/ cf.size.k # "int"
          \/ cf.size.n <= 0

\* A constructor call with an invalid configuration raises TypeError or
\* ValueError and leaves the Tokens, __instances__ and __regex__ as they
\* were.
InvalidIsRefused ==
    (last'.op = "create" /\ IsInvalid(last'.reset)) =>
        /\ IsErr(last'.v)
        /\ last'.v.e \in {"TypeError", "ValueError"}
        /\ instances' = instances
        /\ regex' = regex
        /\ tokens' = tokens

\* C15: Token(...) with invalid brackets, prefix or size fails with a
\* configuration error and adds nothing to __instances__ or __regex__.
C15_InvalidConfigRefused == [][InvalidIsRefused]_vars

\* C15 witness: with a Token registered, a constructor call with an invalid
\* configuration has raised.
C15_Witness ==
    /\ last.op = "create"
    /\ IsInvalid(last.reset)
    /\ IsErr(last.v)
    /\ Len(instances) >= 1

---------------------------------------------------------------------------
(* SpecLazy: recording on Chain Proxies, Tokens made from them, variants   *)
(* of these Tokens, and resolutions.                                       *)

NextLazy ==
    \/ Len(proxies) < MaxProxies /\ CoreProxy
    \/ \E p \in 1..Len(proxies), name \in {"name", "foo"} :
          Len(proxies[p]) = 1 /\ Hop(p, name)
    \/ \E p \in 1..Len(proxies) :
          Len(proxies[p]) > 1 /\ Ops(p) < MaxOps /\ Index(p, StrV(<<"x">>))
    \/ \E p \in 1..Len(proxies) : \E args \in ArgsOf(p), kwargs \in KwargsOf(p) :
          Len(proxies[p]) > 1 /\ Ops(p) < MaxOps /\ Call(p, args, kwargs)
    \/ \E p \in 1..Len(proxies), an \in BOOLEAN :
          /\ Tokens = {}
          /\ Create(ProxyV(p), FALSE, an, DefaultCallDepth, FALSE, NoConfig)
    \/ \E t \in Tokens \cap {1} : Variant(t, IntV(1))
    \/ \E p \in 1..Len(proxies) : ResolveProxy(p)
    \/ Return

SpecLazy == Init /\ [][NextLazy]_vars

---------------------------------------------------------------------------
(* Claims about recording (checked under SpecLazy and SpecProxy).          *)

\* The call that ends with this step neither reads an attribute of the
\* backend nor invokes anything.
BackendUntouched == touched' = touched /\ calls' = calls

\* The call that ends with this step returns the proxy it was made on.
SameProxy == last'.v = last'.obj

\* C16 as stated: Token.core, an attribute hop, an index, a call, the
\* construction of a Token from a Chain Proxy and the making of a variant
\* of such a Token leave the backend untouched, and a hop, an index and a
\* call return the proxy they were applied to.
LazyAsStated ==
    /\ last'.op \in {"core", "getattr", "getitem", "call", "create", "variant"} =>
          BackendUntouched
    /\ last'.op \in {"getattr", "getitem", "call"} => SameProxy

C16_LazyAsStated == [][LazyAsStated]_vars

\* C16: the same for Token.core, a hop, an index, a call and the
\* construction of a Token; the making of a variant is left out, for it
\* resolves the parent's replacement.
LazyRecording ==
    /\ last'.op \in {"core", "getattr", "getitem", "call", "create"} =>
          BackendUntouched
    /\ last'.op \in {"getattr", "getitem", "call"} => SameProxy

C16_LazyRecording == [][LazyRecording]_vars

\* C16 witness: a call with a Chain Proxy among its arguments has been
\* recorded on the proxy a Token was made from, and the backend is
\* untouched.
C16_Witness ==
    /\ last.op = "call"
    /\ Len(tokens) >= 1
    /\ tokens[1].replacement = last.obj
    /\ \E i \in 1..Len(proxies[last.obj.ref]) :
          \E j \in 1..Len(proxies[last.obj.ref][i].params) :
              LET e == proxies[last.obj.ref][i].params[j]
              IN e.k = "Arguments" /\ \E n \in 1..Len(e.args) : e.args[n].k = "proxy"
    /\ ~touched
    /\ calls = 0

---------------------------------------------------------------------------
(* SpecRecord: recording alone.  Hops, index operations and calls are      *)
(* recorded in any order on fresh Chain Proxies, on the root step too.     *)

NextRecord ==
    \/ Len(proxies) < MaxProxies /\ CoreProxy
    \/ \E p \in 1..Len(proxies), name \in {"foo", "data"} :
          Ops(p) < MaxOps /\ Hop(p, name)
    \/ \E p \in 1..Len(proxies) : Ops(p) < MaxOps /\ Index(p, StrV(<<"x">>))
    \/ \E p \in 1..Len(proxies) : \E args \in ArgsOf(p), kwargs \in KwargsOf(p) :
          Ops(p) < MaxOps /\ Call(p, args, kwargs)
    \/ Return

SpecRecord == Init /\ [][NextRecord]_vars

\* The queue q with the operation e added to the operations of its last
\* step, everything recorded before as it was.
WithOperation(q, e) ==
    [i \in 1..Len(q) |->
        IF i < Len(q) THEN q[i]
        ELSE [item |-> q[i].item, params |-> q[i].params \o <<e>>]]

\* What the call that ends with this step is to make of the queue q of the
\* proxy p.
Recording(p, q) ==
    IF last'.obj # ProxyV(p) THEN q
    ELSE CASE last'.op = "getattr" ->
                q \o << [item |-> last'.order[1], params |-> <<>>] >>
           [] last'.op = "getitem" -> WithOperation(q, Item(last'.reset))
           [] last'.op = "call" ->
                WithOperation(q, Arguments(last'.reset.items, last'.order))
           [] OTHER -> q

\* A fresh proxy holds the root step; a hop adds a step of its name and no
\* operations after the steps recorded; an index or a call is added after
\* the operations of the last step; nothing else changes in any queue.
QueueShape ==
    /\ Len(proxies') >= Len(proxies)
    /\ \A p \in 1..Len(proxies) : proxies'[p] = Recording(p, proxies[p])
    /\ \A p \in (Len(proxies) + 1)..Len(proxies') :
          proxies'[p] = << [item |-> "", params |-> <<>>] >>

\* Every queue starts with the root step, the only step without a name.
RootFirst ==
    \A p \in 1..Len(proxies) :
        /\ proxies[p][1].item = ""
        /\ \A i \in 2..Len(proxies[p]) : proxies[p][i].item # ""

\* C17: the queue of a Chain Proxy is the root step followed by one step
\* per hop in the order of the hops, each index and call recorded in order
\* on the step that was last when it was made.
C17_QueueShape == []RootFirst /\ [][QueueShape]_vars

\* C17 witness: a call has been recorded on a step after a hop, on a proxy
\* with an operation on its root step.
C17_Witness ==
    /\ last.op = "call"
    /\ Len(proxies[last.obj.ref]) = 2
    /\ proxies[last.obj.ref][1].params # <<>>
    /\ proxies[last.obj.ref][2].params # <<>>

---------------------------------------------------------------------------
(* Claims about resets (checked under Spec).                               *)

\* The variants of the Token t that a call with the record rec names for a
\* reset: all of them for reset_cache() and reset=True, the one under the
\* key for reset_cache(k) and reset=k, none for reset=False.
NamedFor(rec, t) ==
    LET cached == tokens[t].cached
        all == {cached[i][2].tok : i \in 1..Len(cached)}
        under(key) == {cached[i][2].tok : i \in {j \in 1..Len(cached) : cached[j][1] = key}}
    IN IF rec.t # t THEN {}
       ELSE IF rec.op = "reset_cache"
       THEN IF rec.obj.items = <<>> THEN all
            ELSE UNION {under(rec.obj.items[i]) : i \in 1..Len(rec.obj.items)}
       ELSE IF rec.reset = BoolV(TRUE) THEN all
       ELSE IF rec.reset = BoolV(FALSE) THEN {}
       ELSE under(rec.reset)

\* What a cached variant holds as its value: its replacement and what a
\* reset has assigned to it.
StoredValue(toks, u) == <<toks[u].replacement, toks[u].dunder>>

\* A call of inject_into or reset_cache leaves the stored value of every
\* variant it does not name, the Token cached under every key, every
\* Token's replacement source and the registry as they were.
ResetFrame ==
    last'.op \in {"inject_into", "reset_cache"} =>
        /\ Len(tokens') = Len(tokens)
        /\ instances' = instances
        /\ regex' = regex
        /\ \A t \in Tokens :
              /\ tokens'[t].cached = tokens[t].cached
              /\ ~IsVariant(tokens, t) => tokens'[t].replacement = tokens[t].replacement
              /\ \A u \in VariantsOf(t) \ NamedFor(last', t) :
                    StoredValue(tokens', u) = StoredValue(tokens, u)

\* C18: reset=False resets nothing, a key resets no variant but the one it
\* names, and no reset changes the cache's Tokens, the parent's replacement
\* source or the registry.
C18_ResetFrame == [][ResetFrame]_vars

\* C18 witness: with two variants cached, a reset by key has assigned to
\* the one named and not to the other.
C18_Witness ==
    /\ last.op \in {"inject_into", "reset_cache"}
    /\ ~IsErr(last.v)
    /\ Len(tokens[last.t].cached) = 2
    /\ \E u, w \in VariantsOf(last.t) :
          tokens[u].dunder # Unset /\ tokens[w].dunder = Unset

---------------------------------------------------------------------------
(* Claims about the cost of a resolution (checked under SpecResolve).      *)

\* The zero-argument invocations the last call made.
Invoked == calls - last.pre

\* C19: a resolution of a Token's replacement invokes at most call_depth
\* callables, the making of a variant at most the parent's call_depth; for
\* a factory of factories it invokes exactly call_depth and then raises
\* RuntimeError, or returns the callable when always_replace is set; the
\* resolution of a cached variant invokes nothing.
C19_BoundedResolution ==
    /\ last.op \in {"replacement", "variant"} =>
          Invoked <= tokens[last.t].call_depth
    /\ (last.op = "replacement" /\ tokens[last.t].replacement = EndlessV) =>
          /\ Invoked = tokens[last.t].call_depth
          /\ last.v = IF tokens[last.t].always_replace THEN EndlessV
                      ELSE ErrV("RuntimeError")
    /\ (last.op = "replacement" /\ IsVariant(tokens, last.t)) =>
          /\ tokens[last.t].call_depth = 0
          /\ Invoked = 0

\* C19 witness: a cached variant that holds a factory of factories has
\* been resolved, after the invocations that its making took.
C19_Witness ==
    /\ last.op = "replacement"
    /\ IsVariant(tokens, last.t)
    /\ tokens[last.t].replacement = EndlessV
    /\ last.v = EndlessV
    /\ calls = MaxDepth

---------------------------------------------------------------------------
(* SpecReplay: Chain Proxies replayed again and again.  Chains are         *)
(* recorded, with earlier Chain Proxies among the arguments of their       *)
(* calls; they are resolved directly, and through a Token that has one as  *)
(* its replacement source and is injected into its own placeholder.        *)

NextReplay ==
    \/ Len(proxies) < MaxProxies /\ CoreProxy
    \/ \E p \in 1..Len(proxies), name \in {"name", "data"} :
          Len(proxies[p]) = 1 /\ Hop(p, name)
    \/ \E p \in 1..Len(proxies) :
          Len(proxies[p]) > 1 /\ Ops(p) < MaxOps /\ Index(p, StrV(<<"x">>))
    \/ \E p \in 1..Len(proxies) : \E args \in ArgsOf(p) :
          Len(proxies[p]) > 1 /\ Ops(p) < MaxOps /\ Call(p, args, <<>>)
    \/ \E p \in 1..Len(proxies) : ResolveProxy(p)
    \/ \E p \in 1..Len(proxies), fm \in BOOLEAN :
          /\ Tokens = {}
          /\ Create(ProxyV(p), fm, FALSE, DefaultCallDepth, FALSE, NoConfig)
    \/ \E t \in Tokens :
          Inject(t, StrV(Placeholder(tokens[t])), BoolV(FALSE), FALSE)
    \/ Return

SpecReplay == Init /\ [][NextReplay]_vars

---------------------------------------------------------------------------
(* Claims about repeated replay (checked under SpecReplay).                *)

\* No call is recorded in the queue q.
CallFree(q) ==
    \A i \in 1..Len(q) : \A j \in 1..Len(q[i].params) : q[i].params[j].k = "Item"

\* What the chain q, a chain without calls, comes to on the backend of
\* the state the step starts in.
Reached(q) == DirectSteps(St, q, core).v

\* A step of __resolve__ leaves every recording as it was, Chain Proxies
\* among the recorded arguments included, and the backend and the Tokens
\* too; it returns what the chain comes to on the backend of that time, and
\* what the same call returns when made again right after.
ResolveRepeats ==
    last'.op = "resolve" =>
        /\ proxies' = proxies
        /\ core' = core
        /\ tokens' = tokens
        /\ last'.v = ProxyResolve(St', last'.obj.ref).v
        /\ CallFree(proxies[last'.obj.ref]) =>
              last'.v = Reached(proxies[last'.obj.ref])

\* The text of the backend method name invoked as invocation number n.
NameText(n) == StrV(<<BackendLetter(core.b)>> \o IntStr(n))

\* An injection of a Token whose replacement source is a Chain Proxy
\* leaves the recordings and the Token as they were; a chain that comes to
\* a text yields that text, a chain that comes to the method name yields
\* the text of one new invocation of it.
InjectRepeats ==
    (last'.op = "inject_into" /\ tokens[last'.t].replacement.k = "proxy") =>
        LET q == proxies[tokens[last'.t].replacement.ref]
        IN /\ proxies' = proxies
           /\ tokens' = tokens
           /\ (CallFree(q) /\ Reached(q).k = "str") => last'.v = Reached(q)
           /\ Reached(q) = MethV(core.b, "name") =>
                 /\ calls' = calls + 1
                 /\ last'.v = NameText(calls')

\* C20: __resolve__ leaves the queue of the Chain Proxy, and of every
\* other, unchanged, so that the same chain is replayed on the backend of
\* the time whenever the Chain Proxy is resolved again, directly or by an
\* injection of a Token that has it as its replacement source.
C20_ReplayRepeats == [][ResolveRepeats /\ InjectRepeats]_vars

\* C20 witness: the Chain Proxy core.name, the replacement source of a
\* Token that has been injected twice, has been resolved once more.
C20_Witness ==
    /\ last.op = "resolve"
    /\ Tokens # {}
    /\ tokens[1].replacement = last.obj
    /\ calls = MaxCalls
    /\ last.v = MethV(core.b, "name")

====
